---- MODULE Spec2Model ----
(***************************************************************************)
(* Model of pytrendsdaily/dailydata.py: getTimeframe, _fetchData (the      *)
(* retry loop around one upstream request) and getDailyData (one monthly   *)
(* fetch, one daily fetch per calendar month, then the rescaling of the    *)
(* daily values by the monthly ones).                                      *)
(*                                                                         *)
(* Dates are records [year, month, day]. Numbers of the data frames are    *)
(* exact fractions <<n, d>> with d > 0 in lowest terms; <<1, 0>> is the    *)
(* float inf and <<0, 0>> the float NaN (rounding is not modelled).        *)
(* Durations of getDailyData's pacing sleep are in tenths of a second,     *)
(* those of _fetchData's backoff sleep in seconds.                         *)
(***************************************************************************)
EXTENDS Integers, Sequences, FiniteSets, TLC

VARIABLES
    start_year,   \* argument of getDailyData
    stop_year,    \* argument of getDailyData
    wait10,       \* 10*wait_time, the stop argument of randrange
    today,        \* what date.today() returns during the call
    stub,         \* which deterministic upstream answers the requests
    pc,           \* position of the call: start, request, fetched, loop, done, error
    err,          \* the exception that ended the call ("none" while there is none)
    errAt,        \* the statement that raised it
    start_date,   \* local of getDailyData
    stop_date,    \* local of getDailyData
    monthly,      \* local of getDailyData: the restricted monthly frame
    results,      \* local of getDailyData: dict current -> frame, in insertion order
    current,      \* local of getDailyData
    site,         \* which call of _fetchData is running: "monthly" or "daily"
    timeframe,    \* argument of _fetchData
    attempts,     \* local of _fetchData
    reqlog,       \* the timeframes build_payload was called with in this _fetchData call
    waits,        \* the arguments of sleep in this _fetchData call
    raised,       \* what the upstream raised in this _fetchData call, in order
    calls,        \* the _fetchData calls made so far: [site, timeframe]
    pause,        \* argument of the last pacing sleep, in tenths of a second (0: none yet)
    complete      \* the returned frame

vars == <<start_year, stop_year, wait10, today, stub, pc, err, errAt, start_date,
          stop_date, monthly, results, current, site, timeframe, attempts, reqlog,
          waits, raised, calls, pause, complete>>

(***************************************************************************)
(* Bounds of the model.                                                    *)
(***************************************************************************)
\* start_year and stop_year are drawn from FirstYear..LastYear; FirstYear is the
\* year of the monthly request's fixed start, where the upstream's data begins.
FirstYear == 2004
LastYear == 2005
\* The upstream raises at most MaxRaises errors within one _fetchData call.
MaxRaises == 3

(***************************************************************************)
(* Calendar: datetime.date, calendar.monthrange, timedelta(days=1).        *)
(***************************************************************************)
date(y, m, d) == [year |-> y, month |-> m, day |-> d]

NoDate == date(0, 0, 0)

DateLT(a, b) ==
    \/ a.year < b.year
    \/ a.year = b.year /\ a.month < b.month
    \/ a.year = b.year /\ a.month = b.month /\ a.day < b.day

DateLE(a, b) == a = b \/ DateLT(a, b)

IsLeap(y) == y % 4 = 0 /\ (y % 100 # 0 \/ y % 400 = 0)

monthrangeNoLeap(y, m) ==
    IF m = 2 THEN 28
    ELSE IF m \in {4, 6, 9, 11} THEN 30 ELSE 31

\* monthrange(y, m)[1]: the number of days of the month
monthrange(y, m) ==
    IF m = 2 THEN (IF IsLeap(y) THEN 29 ELSE 28)
    ELSE IF m \in {4, 6, 9, 11} THEN 30 ELSE 31

\* d + timedelta(days=1)
NextDay(d) ==
    IF d.day < monthrange(d.year, d.month) THEN date(d.year, d.month, d.day + 1)
    ELSE IF d.month < 12 THEN date(d.year, d.month + 1, 1)
    ELSE date(d.year + 1, 1, 1)

MonthStart(d) == date(d.year, d.month, 1)

MonthEnd(d) == date(d.year, d.month, monthrange(d.year, d.month))

NextMonthStart(d) ==
    IF d.month < 12 THEN date(d.year, d.month + 1, 1) ELSE date(d.year + 1, 1, 1)

SameMonth(a, b) == a.year = b.year /\ a.month = b.month

(***************************************************************************)
(* getTimeframe: "%Y-%m-%d %Y-%m-%d" as a sequence of characters, and the  *)
(* upstream's reading of it.                                               *)
(***************************************************************************)
Digits == <<"0", "1", "2", "3", "4", "5", "6", "7", "8", "9">>

Chr(n) == Digits[n + 1]

Ord(c) == CHOOSE n \in 0..9 : Digits[n + 1] = c

strftime(d) ==
    << Chr(d.year \div 1000), Chr((d.year \div 100) % 10), Chr((d.year \div 10) % 10),
       Chr(d.year % 10), "-", Chr(d.month \div 10), Chr(d.month % 10), "-",
       Chr(d.day \div 10), Chr(d.day % 10) >>

getTimeframe(start, stop) == strftime(start) \o <<" ">> \o strftime(stop)

\* the date written at s[off+1 .. off+10]
ParseDate(s, off) ==
    date(1000 * Ord(s[off + 1]) + 100 * Ord(s[off + 2]) + 10 * Ord(s[off + 3])
             + Ord(s[off + 4]),
         10 * Ord(s[off + 6]) + Ord(s[off + 7]),
         10 * Ord(s[off + 9]) + Ord(s[off + 10]))

RangeStart(tf) == ParseDate(tf, 0)

RangeStop(tf) == ParseDate(tf, 11)

(***************************************************************************)
(* Float arithmetic of the frames' columns (numpy semantics on division by *)
(* zero: x/0 = inf for x > 0, 0/0 = NaN, 0*inf = NaN; all values >= 0).    *)
(***************************************************************************)
NaN == <<0, 0>>

Inf == <<1, 0>>

Num(n) == <<n, 1>>

RECURSIVE GCD(_, _)
GCD(a, b) == IF b = 0 THEN a ELSE GCD(b, a % b)

Norm(n, d) == LET g == GCD(n, d) IN <<n \div g, d \div g>>

IsFinite(x) == x[2] # 0

DivGuarded(a, b) ==
    IF a = NaN \/ b = NaN THEN NaN
    ELSE IF ~IsFinite(b) THEN (IF IsFinite(a) THEN Num(0) ELSE NaN)
    ELSE IF ~IsFinite(a) THEN Inf
    ELSE IF b[1] = 0 THEN Num(0)
    ELSE Norm(a[1] * b[2], a[2] * b[1])

\* a / b
Div(a, b) ==
    IF a = NaN \/ b = NaN THEN NaN
    ELSE IF ~IsFinite(b) THEN (IF IsFinite(a) THEN Num(0) ELSE NaN)
    ELSE IF ~IsFinite(a) THEN Inf
    ELSE IF b[1] = 0 THEN (IF a[1] = 0 THEN NaN ELSE Inf)
    ELSE Norm(a[1] * b[2], a[2] * b[1])

\* a * b
Mul(a, b) ==
    IF a = NaN \/ b = NaN THEN NaN
    ELSE IF ~IsFinite(a) THEN (IF b[1] = 0 THEN NaN ELSE Inf)
    ELSE IF ~IsFinite(b) THEN (IF a[1] = 0 THEN NaN ELSE Inf)
    ELSE Norm(a[1] * b[1], a[2] * b[2])

(***************************************************************************)
(* The upstream (pytrends), a black box to the program: deterministic      *)
(* stubs that answer a monthly request with one observation per calendar   *)
(* month starting in the requested range and a daily request with one      *)
(* observation per day of the requested range.                             *)
(***************************************************************************)
Stubs == {"const", "ramp", "zeromonth", "zerozero"}

StubDaily(s, d) ==
    CASE s = "const" -> 10
      [] s = "ramp" -> d.day
      [] s = "zeromonth" -> (IF d.month = 2 THEN 0 ELSE d.day % 3)
      [] s = "zerozero" -> (IF d.month = 1 THEN 0 ELSE 7)

StubMonthly(s, d) ==
    CASE s = "const" -> 10
      [] s = "ramp" -> 20 + d.month
      [] s = "zeromonth" -> 5
      [] s = "zerozero" -> (IF d.month = 1 THEN 0 ELSE 5)

RECURSIVE DaysOfRange(_, _)
DaysOfRange(a, b) ==
    IF DateLT(b, a) THEN <<>> ELSE <<a>> \o DaysOfRange(NextDay(a), b)

RECURSIVE MonthsFrom(_, _)
MonthsFrom(a, b) ==
    IF DateLT(b, a) THEN <<>> ELSE <<a>> \o MonthsFrom(NextMonthStart(a), b)

MonthsOfRange(a, b) ==
    MonthsFrom(IF a.day = 1 THEN a ELSE NextMonthStart(a), b)

\* pytrends.interest_over_time() after build_payload(timeframe=tf) succeeded
interest_over_time(s, kind, tf) ==
    LET a == RangeStart(tf)
        b == RangeStop(tf)
        idx == IF kind = "monthly" THEN MonthsOfRange(a, b) ELSE DaysOfRange(a, b)
    IN  [i \in 1..Len(idx) |->
            [ts |-> idx[i],
             value |-> IF kind = "monthly" THEN StubMonthly(s, idx[i])
                       ELSE StubDaily(s, idx[i]),
             isPartial |-> SameMonth(idx[i], b) /\ kind = "monthly"]] \o <<>>

\* the exceptions build_payload can raise
Errors == {"ResponseError", "OtherError"}

(***************************************************************************)
(* _fetchData                                                              *)
(***************************************************************************)
RetryableNone(e) == FALSE

RetryableAny(e) == TRUE

\* except ResponseError:
Retryable(e) == e = "ResponseError"

BackoffWaitFlat(n) == 300

\* wait_time = 300*attempts
BackoffWait(n) == 300 * n

(***************************************************************************)
(* getDailyData: dates and the loop over the months                        *)
(***************************************************************************)
AnchorFromStart == date(start_year, 1, 1)

\* date(2004, 1, 1), the fixed start of the monthly request
AnchorDate == date(FirstYear, 1, 1)

\* min([a, b])
MinDate(a, b) == IF DateLT(b, a) THEN b ELSE a

\* while current < stop_date
LoopCond(c, s) == DateLT(c, s)

\* frame[a:b], label slicing of a frame with a sorted date index (both ends included)
Slice(frame, a, b) ==
    SelectSeq(frame, LAMBDA r : DateLE(a, r.ts) /\ DateLE(r.ts, b))

\* the values randrange(10, stop) can return; none when it raises ValueError
randrange10(stop) == {r \in 10..(stop - 1) : TRUE}

(***************************************************************************)
(* getDailyData: the assembly of the returned frame (pandas operations)    *)
(***************************************************************************)
\* a frame built row by row, as the tuple of its rows
Frame(f) == f \o <<>>

RECURSIVE concat(_)
\* pd.concat(results.values()).drop(columns=['isPartial']), for a non-empty dict
concat(rs) ==
    IF rs = <<>> THEN <<>>
    ELSE [i \in 1..Len(rs[1].frame) |->
             [ts |-> rs[1].frame[i].ts, value |-> rs[1].frame[i].value]]
         \o concat(Tail(rs))

RECURSIVE SumValues(_)
SumValues(rows) ==
    IF rows = <<>> THEN 0 ELSE rows[1].value + SumValues(Tail(rows))

\* the mean of a group of rows, NaN for an empty group
Mean(rows) == IF rows = <<>> THEN NaN ELSE Norm(SumValues(rows), Len(rows))

\* daily.resample('M').mean(): one row per calendar month from the first row's
\* month to the last row's, labelled with the month's last day
resampleMean(daily) ==
    IF daily = <<>> THEN <<>>
    ELSE LET months == MonthsFrom(MonthStart(daily[1].ts),
                                  MonthStart(daily[Len(daily)].ts))
         IN  Frame([k \in 1..Len(months) |->
                 [ts |-> MonthEnd(months[k]),
                  value |-> Mean(SelectSeq(daily,
                                 LAMBDA r : SameMonth(r.ts, months[k])))]])

KeepIndex(frame) == frame

\* dailyaverage.index = dailyaverage.index.values.astype('<M8[M]')
AlignToMonthStart(frame) ==
    Frame([k \in 1..Len(frame) |->
              [ts |-> MonthStart(frame[k].ts), value |-> frame[k].value]])

\* the column that right's values make on left's index: right's value where the
\* timestamps are equal, NaN elsewhere (column assignment and left join align so)
AlignColumn(left, right) ==
    Frame([i \in 1..Len(left) |->
              LET hits == {k \in 1..Len(right) : right[k].ts = left[i].ts}
              IN  IF hits = {} THEN NaN
                  ELSE right[CHOOSE k \in hits : TRUE].value])

\* an integer column as the float column it becomes once NaN can be in it
AsFloat(frame) ==
    Frame([k \in 1..Len(frame) |-> [ts |-> frame[k].ts, value |-> Num(frame[k].value)]])

RECURSIVE FillRange(_, _, _, _)
\* col[lo..hi] with every NaN replaced by the last value before it that is not NaN
\* (last: that value for what precedes lo)
FillRange(col, lo, hi, last) ==
    IF lo > hi THEN <<>>
    ELSE IF lo = hi THEN << IF col[lo] = NaN THEN last ELSE col[lo] >>
    ELSE LET mid == (lo + hi) \div 2
             left == FillRange(col, lo, mid, last)
         IN  left \o FillRange(col, mid + 1, hi, left[Len(left)])

\* column.ffill()
ffill(col) == FillRange(col, 1, Len(col), NaN)

\* lines 115-131: the frame getDailyData returns for a non-empty results dict
ScaledFrame(rs, mon) ==
    LET daily == concat(rs)
        avg == ffill(AlignColumn(daily, AlignToMonthStart(resampleMean(daily))))
        mcol == ffill(AlignColumn(daily, AsFloat(mon)))
    IN  Frame([i \in 1..Len(daily) |->
                  LET scale == Div(mcol[i], avg[i])
                  IN  [ts |-> daily[i].ts,
                       unscaled |-> Num(daily[i].value),
                       monthly |-> mcol[i],
                       scale |-> scale,
                       scaled |-> Mul(Num(daily[i].value), scale)]])

(***************************************************************************)
(* The state machine                                                       *)
(***************************************************************************)
Todays == {date(2004, 1, 1), date(2004, 2, 15), date(2004, 3, 1),
           date(2004, 12, 31), date(2005, 1, 1), date(2005, 2, 10)}

Pacings == {0, 10, 12, 13}

Init ==
    /\ start_year \in FirstYear..LastYear
    /\ stop_year \in FirstYear..LastYear
    /\ wait10 \in Pacings
    /\ today \in Todays
    /\ stub \in Stubs
    /\ pc = "start"
    /\ err = "none"
    /\ errAt = "none"
    /\ start_date = NoDate
    /\ stop_date = NoDate
    /\ monthly = <<>>
    /\ results = <<>>
    /\ current = NoDate
    /\ site = "none"
    /\ timeframe = <<>>
    /\ attempts = 0
    /\ reqlog = <<>>
    /\ waits = <<>>
    /\ raised = <<>>
    /\ calls = <<>>
    /\ pause = 0
    /\ complete = <<>>

inputs == <<start_year, stop_year, wait10, today, stub>>

\* the call _fetchData(pytrends, build_payload, tf) made from site s
CallFetch(s, tf) ==
    /\ site' = s
    /\ timeframe' = tf
    /\ attempts' = 0
    /\ reqlog' = <<>>
    /\ waits' = <<>>
    /\ raised' = <<>>
    /\ calls' = Append(calls, [site |-> s, timeframe |-> tf])
    /\ pc' = "request"

\* lines 85-97, up to the first build_payload
Start ==
    /\ pc = "start"
    /\ start_date' = date(start_year, 1, 1)
    /\ stop_date' = MinDate(date(stop_year, 12, 31), today)
    /\ CallFetch("monthly", getTimeframe(AnchorDate, stop_date'))
    /\ UNCHANGED <<inputs, err, errAt, monthly, results, current, pause, complete>>

\* build_payload returns: the else branch, the loop ends
RequestOK ==
    /\ pc = "request"
    /\ reqlog' = Append(reqlog, timeframe)
    /\ pc' = "fetched"
    /\ UNCHANGED <<inputs, err, errAt, start_date, stop_date, monthly, results,
                   current, site, timeframe, attempts, waits, raised, calls, pause,
                   complete>>

\* build_payload raises e and the except clause catches it
RequestRetry(e) ==
    /\ pc = "request"
    /\ Len(raised) < MaxRaises
    /\ Retryable(e)
    /\ reqlog' = Append(reqlog, timeframe)
    /\ raised' = Append(raised, e)
    /\ waits' = Append(waits, BackoffWait(attempts))
    /\ attempts' = attempts + 1
    /\ UNCHANGED <<inputs, pc, err, errAt, start_date, stop_date, monthly, results,
                   current, site, timeframe, calls, pause, complete>>

\* build_payload raises e and nothing catches it: getDailyData ends with e
RequestRaise(e) ==
    /\ pc = "request"
    /\ Len(raised) < MaxRaises
    /\ ~Retryable(e)
    /\ reqlog' = Append(reqlog, timeframe)
    /\ raised' = Append(raised, e)
    /\ pc' = "error"
    /\ err' = e
    /\ errAt' = "build_payload"
    /\ UNCHANGED <<inputs, start_date, stop_date, monthly, results, current, site,
                   timeframe, attempts, waits, calls, pause, complete>>

\* the locals of _fetchData after its return
FetchDone ==
    /\ attempts' = 0
    /\ reqlog' = <<>>
    /\ waits' = <<>>
    /\ raised' = <<>>

\* line 33, then lines 96-102
MonthlyReturn ==
    /\ pc = "fetched"
    /\ site = "monthly"
    /\ monthly' = Slice(interest_over_time(stub, site, timeframe), start_date, stop_date)
    /\ results' = <<>>
    /\ current' = start_date
    /\ pc' = "loop"
    /\ FetchDone
    /\ UNCHANGED <<inputs, err, errAt, start_date, stop_date, site, timeframe, calls,
                   pause, complete>>

\* lines 103-109, up to the first build_payload
IssueDaily ==
    /\ pc = "loop"
    /\ LoopCond(current, stop_date)
    /\ CallFetch("daily", getTimeframe(current, MonthEnd(current)))
    /\ UNCHANGED <<inputs, err, errAt, start_date, stop_date, monthly, results,
                   current, pause, complete>>

\* line 33, then lines 109-110
StoreDaily ==
    /\ results' = Append(results,
                         [key |-> current,
                          frame |-> interest_over_time(stub, site, timeframe)])
    /\ current' = NextDay(MonthEnd(current))
    /\ FetchDone

\* line 33, then lines 109-112 with randrange returning r
DailyReturn ==
    /\ pc = "fetched"
    /\ site = "daily"
    /\ StoreDaily
    /\ \E r \in randrange10(wait10) : pause' = r
    /\ pc' = "loop"
    /\ UNCHANGED <<inputs, err, errAt, start_date, stop_date, monthly, site,
                   timeframe, calls, complete>>

\* line 33, then lines 109-112 with randrange raising ValueError (empty range)
DailyReturnPaceError ==
    /\ pc = "fetched"
    /\ site = "daily"
    /\ randrange10(wait10) = {}
    /\ StoreDaily
    /\ pc' = "error"
    /\ err' = "ValueError"
    /\ errAt' = "randrange"
    /\ UNCHANGED <<inputs, start_date, stop_date, monthly, site, timeframe, calls,
                   pause, complete>>

\* the loop ends, lines 115-131
Assemble ==
    /\ pc = "loop"
    /\ ~LoopCond(current, stop_date)
    /\ results # <<>>
    /\ complete' = ScaledFrame(results, monthly)
    /\ pc' = "done"
    /\ UNCHANGED <<inputs, err, errAt, start_date, stop_date, monthly, results,
                   current, site, timeframe, attempts, reqlog, waits, raised, calls,
                   pause>>

\* the loop ends with results empty: pd.concat raises ValueError (line 115)
AssembleError ==
    /\ pc = "loop"
    /\ ~LoopCond(current, stop_date)
    /\ results = <<>>
    /\ pc' = "error"
    /\ err' = "ValueError"
    /\ errAt' = "concat"
    /\ UNCHANGED <<inputs, start_date, stop_date, monthly, results, current, site,
                   timeframe, attempts, reqlog, waits, raised, calls, pause, complete>>

Next ==
    \/ Start
    \/ RequestOK
    \/ \E e \in Errors : RequestRetry(e)
    \/ \E e \in Errors : RequestRaise(e)
    \/ MonthlyReturn
    \/ IssueDaily
    \/ DailyReturn
    \/ DailyReturnPaceError
    \/ Assemble
    \/ AssembleError

Spec == Init /\ [][Next]_vars

(***************************************************************************)
(* Reference definitions the properties are stated with: a calendar and    *)
(* the window, written without the operators the model of the code uses.   *)
(***************************************************************************)
RefLeap(y) == (y % 4 = 0 /\ y % 100 # 0) \/ y % 400 = 0

RefMonthDays(y, m) ==
    <<31, IF RefLeap(y) THEN 29 ELSE 28, 31, 30, 31, 30, 31, 31, 30, 31, 30, 31>>[m]

RECURSIVE RefDaysBefore(_, _)
RefDaysBefore(y, m) ==
    IF m = 1 THEN 0 ELSE RefDaysBefore(y, m - 1) + RefMonthDays(y, m - 1)

\* the number of the day, counted from 1 January of FirstYear
Ordinal(d) ==
    365 * (d.year - FirstYear)
        + Cardinality({y \in FirstYear..(d.year - 1) : RefLeap(y)})
        + RefDaysBefore(d.year, d.month) + d.day

IsDate(d) ==
    /\ d.month \in 1..12
    /\ d.day \in 1..RefMonthDays(d.year, d.month)

RefStart == [year |-> start_year, month |-> 1, day |-> 1]

RefStop ==
    LET dec31 == [year |-> stop_year, month |-> 12, day |-> 31]
    IN  IF Ordinal(today) < Ordinal(dec31) THEN today ELSE dec31

Started == pc # "start"

DailyCalls == SelectSeq(calls, LAMBDA c : c.site = "daily")

\* the rows of the returned frame that lie in the calendar month of d
RowsOfMonth(d) ==
    {i \in 1..Len(complete) :
        complete[i].ts.year = d.year /\ complete[i].ts.month = d.month}

RECURSIVE SumUnscaled(_)
SumUnscaled(I) ==
    IF I = {} THEN 0
    ELSE LET i == CHOOSE j \in I : TRUE
         IN  complete[i].unscaled[1] + SumUnscaled(I \ {i})

(***************************************************************************)
(* C1: a _fetchData call whose upstream raised k rate-limit errors and     *)
(* then answered has issued exactly k+1 requests, all for the timeframe it *)
(* was called with, and slept k times; at "fetched" the next step is the   *)
(* return of the series. A rate-limit error never ends getDailyData.       *)
(***************************************************************************)
C1_RetryUntilSuccess ==
    /\ err # "ResponseError"
    /\ (pc \in {"request", "fetched"}
            /\ \A i \in 1..Len(raised) : raised[i] = "ResponseError")
       => /\ Len(waits) = Len(raised)
          /\ Len(reqlog) = Len(raised) + (IF pc = "fetched" THEN 1 ELSE 0)
          /\ \A i \in 1..Len(reqlog) : reqlog[i] = timeframe
          /\ attempts = Len(raised)

C1_Witness ==
    /\ pc = "fetched"
    /\ site = "daily"
    /\ raised = <<"ResponseError", "ResponseError">>
    /\ Len(reqlog) = 3

(***************************************************************************)
(* C2: once build_payload raised an error other than the rate-limit error, *)
(* getDailyData has ended with that error: the failing request is the last *)
(* one, no sleep followed it, and no frame is returned.                    *)
(***************************************************************************)
C2_OtherErrorPropagates ==
    (\E i \in 1..Len(raised) : raised[i] # "ResponseError")
    => /\ pc = "error"
       /\ err = raised[Len(raised)]
       /\ err = "OtherError"
       /\ errAt = "build_payload"
       /\ \A i \in 1..(Len(raised) - 1) : raised[i] = "ResponseError"
       /\ Len(reqlog) = Len(raised)
       /\ Len(waits) = Len(raised) - 1
       /\ complete = <<>>

C2_Witness ==
    /\ pc = "error"
    /\ err = "OtherError"
    /\ site = "daily"
    /\ results # <<>>
    /\ Len(raised) = 2

(***************************************************************************)
(* C3: within one _fetchData call each backoff wait is strictly greater    *)
(* than the one before it.                                                 *)
(***************************************************************************)
C3_BackoffIncreases ==
    \A i \in 1..(Len(waits) - 1) : waits[i] < waits[i + 1]

C3_Witness ==
    /\ Len(waits) >= 3
    /\ waits[1] = 0
    /\ waits[3] = 600

(***************************************************************************)
(* C4, as amended: the returned frame has exactly one row per day from     *)
(* start_date to the last day of the last calendar month that begins       *)
(* before stop_date, in ascending order without gap or duplicate; nothing  *)
(* is returned when no month begins before stop_date.                      *)
(***************************************************************************)
C4_RowsPerDayToMonthEnd ==
    /\ (pc = "done") =>
          LET n == Len(complete)
              last == complete[n].ts
          IN  /\ n >= 1
              /\ Ordinal(RefStart) < Ordinal(RefStop)
              /\ \A i \in 1..n : IsDate(complete[i].ts)
              /\ complete[1].ts = RefStart
              /\ \A i \in 1..(n - 1) :
                    Ordinal(complete[i + 1].ts) = Ordinal(complete[i].ts) + 1
              /\ last.day = RefMonthDays(last.year, last.month)
              /\ Ordinal(last) - last.day + 1 < Ordinal(RefStop)
              /\ Ordinal(RefStop) <= Ordinal(last) + 1
    /\ (pc # "done") => complete = <<>>
    /\ (Started /\ Ordinal(RefStop) <= Ordinal(RefStart)) => pc # "done"

C4_Witness ==
    /\ pc = "done"
    /\ start_year = stop_year
    /\ Len(complete) = 366
    /\ complete[60].ts = [year |-> 2004, month |-> 2, day |-> 29]
    /\ complete[366].ts = [year |-> 2004, month |-> 12, day |-> 31]
    /\ complete[366].ts = stop_date

(***************************************************************************)
(* C4, as claimed: the rows of the returned frame are the days of          *)
(* [start_date, stop_date), stop_date itself left out.                     *)
(***************************************************************************)
C4_RowsInHalfOpenWindow ==
    (pc = "done" /\ start_year <= stop_year) =>
        LET n == Len(complete)
        IN  /\ n = Ordinal(RefStop) - Ordinal(RefStart)
            /\ \A i \in 1..n :
                  Ordinal(complete[i].ts) = Ordinal(RefStart) + i - 1

(***************************************************************************)
(* C5, as claimed: with start_date after stop_date the call does not end   *)
(* in an error raised by its own assembly of the (empty) result.           *)
(***************************************************************************)
C5_EmptyWindowNoError ==
    (Started /\ Ordinal(RefStart) > Ordinal(RefStop))
    => ~(pc = "error" /\ errAt = "concat")

(***************************************************************************)
(* C6: in every row of the returned frame, scaled = unscaled * scale and   *)
(* scale = (the upstream's monthly value of the row's calendar month) /    *)
(* (the mean of the unscaled values of the rows of that month); with the   *)
(* constant upstream (daily 10, monthly 10) scale = 1 and scaled = 10.     *)
(***************************************************************************)
C6_ScalingInvariant ==
    (pc = "done") =>
        \A i \in 1..Len(complete) :
            LET r == complete[i]
                I == RowsOfMonth(r.ts)
                sum == SumUnscaled(I)
                m == StubMonthly(stub, r.ts)
            IN  /\ r.unscaled = <<StubDaily(stub, r.ts), 1>>
                /\ r.monthly = <<m, 1>>
                /\ (sum # 0) =>
                      /\ r.scale[2] > 0
                      /\ r.scale[1] * sum = r.scale[2] * m * Cardinality(I)
                      /\ r.scaled[2] > 0
                      /\ r.scaled[1] * r.scale[2]
                            = r.scaled[2] * r.unscaled[1] * r.scale[1]
                /\ (sum = 0) =>
                      /\ r.scale = (IF m = 0 THEN NaN ELSE Inf)
                      /\ r.scaled = NaN
                /\ (stub = "const") => r.scale = <<1, 1>> /\ r.scaled = <<10, 1>>

C6_Witness ==
    /\ pc = "done"
    /\ stub = "ramp"
    /\ Len(complete) > 300
    /\ complete[100].scale = <<48, 31>>
    /\ complete[100].scaled = <<432, 31>>

(***************************************************************************)
(* C7: the rows of a month whose unscaled values are all zero carry a      *)
(* non-finite scale and a NaN scaled value, next to the monthly value as   *)
(* fetched; the rows of every other month carry a finite scale and a       *)
(* finite scaled value.                                                    *)
(***************************************************************************)
C7_ZeroMonthNonFinite ==
    (pc = "done") =>
        \A i \in 1..Len(complete) :
            LET r == complete[i]
                zero == \A j \in RowsOfMonth(r.ts) : complete[j].unscaled = <<0, 1>>
            IN  /\ zero => /\ r.scale \in {Inf, NaN}
                           /\ r.scaled = NaN
                           /\ r.monthly = <<StubMonthly(stub, r.ts), 1>>
                /\ ~zero => r.scale[2] > 0 /\ r.scaled[2] > 0

C7_Witness ==
    /\ pc = "done"
    /\ stub = "zeromonth"
    /\ Len(complete) >= 60
    /\ complete[40].unscaled = <<0, 1>>
    /\ complete[40].monthly = <<5, 1>>
    /\ complete[40].scale = Inf
    /\ complete[40].scaled = NaN
    /\ complete[2].scale = <<5, 1>>
    /\ complete[2].scaled = <<10, 1>>

(***************************************************************************)
(* C8, as claimed: the daily requests are one per calendar month that      *)
(* overlaps [start_date, stop_date], in ascending order, and the range of  *)
(* each is its month clipped to [start_date, stop_date].                   *)
(***************************************************************************)
C8_MonthsClippedToWindow ==
    LET D == DailyCalls
        a(i) == RangeStart(D[i].timeframe)
        b(i) == RangeStop(D[i].timeframe)
    IN  /\ \A i \in 1..Len(D) :
              /\ Ordinal(RefStart) <= Ordinal(a(i))
              /\ Ordinal(a(i)) <= Ordinal(b(i))
              /\ Ordinal(b(i)) <= Ordinal(RefStop)
              /\ a(i).year = b(i).year /\ a(i).month = b(i).month
              /\ a(i).day = 1 \/ a(i) = RefStart
              /\ b(i).day = RefMonthDays(b(i).year, b(i).month) \/ b(i) = RefStop
        /\ \A i \in 1..(Len(D) - 1) :
              12 * a(i).year + a(i).month < 12 * a(i + 1).year + a(i + 1).month
        /\ (pc = "done") =>
              \A y \in start_year..RefStop.year : \A m \in 1..12 :
                  (12 * y + m <= 12 * RefStop.year + RefStop.month)
                  => \E i \in 1..Len(D) : a(i).year = y /\ a(i).month = m

(***************************************************************************)
(* C9, as claimed: with a pacing factor of at least 1 the pacing pause is  *)
(* computed without error and lies in [1.0, pacing factor].                *)
(***************************************************************************)
C9_PacingInRange ==
    (wait10 >= 10) =>
        /\ ~(pc = "error" /\ errAt = "randrange")
        /\ (pause # 0) => (10 <= pause /\ pause <= wait10)

(***************************************************************************)
(* C10: the first _fetchData call is the monthly one, for the range from   *)
(* 1 January 2004 to stop_date whatever start_year is; every later call is *)
(* a daily one, made after the monthly call returned; and the monthly      *)
(* frame kept for the scaling holds exactly the upstream's monthly values  *)
(* of the months that start in [start_date, stop_date].                    *)
(***************************************************************************)
C10_MonthlyAnchorFirst ==
    /\ Started =>
          /\ Len(calls) >= 1
          /\ calls[1].site = "monthly"
          /\ Len(calls[1].timeframe) = 21
          /\ RangeStart(calls[1].timeframe) = [year |-> 2004, month |-> 1, day |-> 1]
          /\ RangeStop(calls[1].timeframe) = RefStop
          /\ \A i \in 2..Len(calls) : calls[i].site = "daily"
    /\ (Len(calls) = 1 /\ pc \in {"request", "fetched"}) => monthly = <<>>
    /\ (Len(calls) >= 2 \/ pc \in {"loop", "done"}) =>
          /\ \A k \in 1..Len(monthly) :
                /\ monthly[k].ts.day = 1
                /\ Ordinal(RefStart) <= Ordinal(monthly[k].ts)
                /\ Ordinal(monthly[k].ts) <= Ordinal(RefStop)
                /\ monthly[k].value = StubMonthly(stub, monthly[k].ts)
          /\ \A k \in 1..(Len(monthly) - 1) :
                Ordinal(monthly[k].ts) < Ordinal(monthly[k + 1].ts)
          /\ \A y \in start_year..RefStop.year : \A m \in 1..12 :
                (12 * y + m <= 12 * RefStop.year + RefStop.month)
                => \E k \in 1..Len(monthly) :
                      monthly[k].ts = [year |-> y, month |-> m, day |-> 1]

C10_Witness ==
    /\ pc = "done"
    /\ start_year = 2005
    /\ Len(calls) = 3
    /\ Len(monthly) = 2
    /\ RangeStart(calls[1].timeframe) = [year |-> 2004, month |-> 1, day |-> 1]

====
